---- MODULE Spec2Model ----
(***************************************************************************)
(* Model of the virtio_vmmci guest driver (src/virtio_vmmci.c): the        *)
(* attach/detach sequence, the clock drift monitor (a self re-arming       *)
(* delayed work item on a single-threaded work queue), the command         *)
(* dispatcher (vmmci_changed) and the RTC full-sync routine                *)
(* (sync_system_time).                                                     *)
(***************************************************************************)
EXTENDS Integers, Sequences, FiniteSets, TLC

(***************************************************************************)
(* Bounds of the model.                                                    *)
(***************************************************************************)
\* the host's TIME_SEC is at most MaxDrift seconds away from the boot time
MaxDrift == 6
\* the guest wall clock advances by at most MaxElapse seconds in a behaviour
MaxElapse == 1
\* strings written to the debug parameter have at most MaxLen characters
MaxLen == 3
\* the debug parameter is written at most MaxWrites times in a behaviour
MaxWrites == 2

(***************************************************************************)
(* Program constants.                                                      *)
(***************************************************************************)
VMMCI_F_TIMESYNC == 1
VMMCI_F_ACK == 2
VMMCI_F_SYNCRTC == 4

VMMCI_NONE == 0
VMMCI_SHUTDOWN == 1
VMMCI_REBOOT == 2
VMMCI_SYNCRTC == 3

ENODEV == 19
ENOMEM == 12
EINVAL == 22
EIO == 5

NSEC_PER_SEC == 1000000000
NSEC_PER_USEC == 1000

\* delays of the delayed work, in seconds
DELAY_1s == 1
DELAY_20s == 20

(***************************************************************************)
(* Feature negotiation.  A feature set is the set of bit positions that    *)
(* are set in the 64-bit feature word.                                     *)
(***************************************************************************)
\* the driver's feature table: each entry is handed to the virtio core,
\* which reads it as a bit position
feature_table == <<VMMCI_F_TIMESYNC, VMMCI_F_ACK, VMMCI_F_SYNCRTC>>

\* the bits a device can advertise
DeviceBits == {0, 1, 2}

RECURSIVE Pow2(_)
Pow2(n) == IF n = 0 THEN 1 ELSE 2 * Pow2(n - 1)

\* word & mask, for a word given as a set of bit positions
MaskBits(mask) == {b \in 0..7 : (mask \div Pow2(b)) % 2 = 1}
HasMask(word, mask) == (word \cap MaskBits(mask)) # {}

\* vdev->features after the core has negotiated: the advertised bits that
\* the feature table names
Negotiate(advertised) ==
    advertised \cap {feature_table[i] : i \in DOMAIN feature_table}

(***************************************************************************)
(* Time.                                                                   *)
(***************************************************************************)
Timespec(s, n) == [tv_sec |-> s, tv_nsec |-> n]

RECURSIVE set_normalized_timespec64(_, _)
set_normalized_timespec64(sec, nsec) ==
    IF nsec >= NSEC_PER_SEC
    THEN set_normalized_timespec64(sec + 1, nsec - NSEC_PER_SEC)
    ELSE IF nsec < 0
         THEN set_normalized_timespec64(sec - 1, nsec + NSEC_PER_SEC)
         ELSE Timespec(sec, nsec)

timespec64_sub(lhs, rhs) ==
    set_normalized_timespec64(lhs.tv_sec - rhs.tv_sec, lhs.tv_nsec - rhs.tv_nsec)

\* struct rtc_time, as the calendar fields the driver uses
RtcTm(y, mo, d, h, mi, s) ==
    [tm_year |-> y, tm_mon |-> mo, tm_mday |-> d,
     tm_hour |-> h, tm_min |-> mi, tm_sec |-> s]

mktime64(year0, mon0, day, hour, min, sec) ==
    LET mon  == IF mon0 - 2 <= 0 THEN mon0 - 2 + 12 ELSE mon0 - 2
        year == IF mon0 - 2 <= 0 THEN year0 - 1 ELSE year0
        days == (year \div 4) - (year \div 100) + (year \div 400)
                + ((367 * mon) \div 12) + day + year * 365 - 719499
    IN  ((days * 24 + hour) * 60 + min) * 60 + sec

rtc_tm_to_time64(tm) ==
    mktime64(tm.tm_year + 1900, tm.tm_mon + 1, tm.tm_mday,
             tm.tm_hour, tm.tm_min, tm.tm_sec)

\* calendar values the hardware clock may return
RtcTimes == { RtcTm(121, 2, 4, 10, 0, 0), RtcTm(121, 2, 4, 10, 0, 9),
              RtcTm(120, 1, 29, 23, 59, 59) }

\* the guest wall clock at boot
BootSec == rtc_tm_to_time64(RtcTm(121, 2, 4, 10, 0, 0))
BootClocks == { Timespec(BootSec, 750000000) }

\* values of the host's time registers
HostSecs == { BootSec + d : d \in {-MaxDrift, -5, 0, 5, MaxDrift} }
HostUsecs == {0, 999999}

\* values of the COMMAND register (s32)
CmdValues == {-1, VMMCI_NONE, VMMCI_SHUTDOWN, VMMCI_REBOOT, VMMCI_SYNCRTC, 4}

NoDiff == Timespec(0, -1)

VARIABLES
    device_features,  \* feature bits the device advertises
    vdev_features,    \* vdev->features
    probe_pc,         \* position of vmmci_probe
    probe_rc,         \* value vmmci_probe returned
    priv,             \* vdev->priv
    ctx,              \* the struct virtio_vmmci allocation
    clock_wq,         \* vmmci->clock_wq
    timer,            \* clock_work's timer: 0 idle, else the delay it was armed with
    work_pending,     \* clock_work is on the work list of clock_wq
    tick_pc,          \* position of clock_work_func
    diff,             \* clock_work_func's diff
    tick_rearms,      \* delays with which the running tick armed the timer
    remove_pc,        \* position of vmmci_remove
    flush_need,       \* executions flush_workqueue still waits for
    uaf,              \* the work item or queue was used after its release
    sysclock,         \* the guest wall clock
    elapsed,          \* seconds the wall clock advanced by itself
    chg_pc,           \* position of vmmci_changed / sync_system_time
    cmd,              \* vmmci_changed's cmd
    rc,               \* sync_system_time's rc
    rtc,              \* sync_system_time's rtc handle
    hw_tm,            \* sync_system_time's hw_tm
    time,             \* sync_system_time's time
    effects,          \* what the current (or last) dispatch has done so far
    prev,             \* history: what the dispatch before did, when it read the same value
    debug,            \* the module parameter debug
    dbg_io            \* history: the last write to the parameter and the read after it

monVars == <<timer, work_pending, tick_pc, diff, tick_rearms>>
devVars == <<device_features, vdev_features>>
probeVars == <<probe_pc, probe_rc>>
memVars == <<priv, ctx, clock_wq>>
remVars == <<remove_pc, flush_need>>
chgVars == <<chg_pc, cmd, rc, rtc, hw_tm, time, effects>>

parVars == <<debug, dbg_io>>

vars == <<devVars, probeVars, memVars, monVars, remVars, uaf, sysclock, elapsed,
          chgVars, prev, parVars>>

(***************************************************************************)
(* Work queue primitives, as the driver uses them.                         *)
(***************************************************************************)
\* queue_delayed_work: arms the timer unless the work is already pending
\* (its timer armed, or on the work list); yields the timer afterwards
queue_delayed_work(t, pending, delay) ==
    IF t # 0 \/ pending THEN t ELSE delay

NoEffects ==
    [poweroff |-> 0, reboot |-> 0, sync |-> 0, settime |-> 0, close |-> 0,
     opened |-> <<>>, read |-> <<>>, set |-> <<>>, errs |-> <<>>,
     written |-> <<>>, wreg |-> <<>>, ret |-> <<>>]

NoTm == RtcTm(0, 0, 0, 0, 0, 0)
NoIo == [op |-> "none", val |-> <<>>, rc |-> 0, before |-> 0, out |-> <<>>,
         bytes |-> 0, writes |-> 0]

\* the initialiser of time without the half second
InitTime_zero == Timespec(0, 0)

\* struct timespec64 time = { .tv_nsec = NSEC_PER_SEC >> 1 };
InitTime == Timespec(0, NSEC_PER_SEC \div 2)

Init ==
    /\ device_features \in SUBSET DeviceBits
    /\ vdev_features = Negotiate(device_features)
    /\ probe_pc = "alloc"
    /\ probe_rc = 0
    /\ priv = "NULL"
    /\ ctx = "none"
    /\ clock_wq = "NULL"
    /\ timer = 0
    /\ work_pending = FALSE
    /\ tick_pc = "idle"
    /\ diff = NoDiff
    /\ tick_rearms = <<>>
    /\ remove_pc = "start"
    /\ flush_need = 0
    /\ uaf = FALSE
    /\ sysclock \in BootClocks
    /\ elapsed = 0
    /\ chg_pc = "idle"
    /\ cmd = 0
    /\ rc = -1
    /\ rtc = "NULL"
    /\ hw_tm = NoTm
    /\ time = InitTime
    /\ effects = NoEffects
    /\ prev = <<>>
    /\ debug = 0
    /\ dbg_io = NoIo

(***************************************************************************)
(* vmmci_probe                                                             *)
(***************************************************************************)
\* vdev->priv = vmmci = kzalloc(...); if (!vmmci) return -ENOMEM;
ProbeAlloc ==
    /\ probe_pc = "alloc"
    /\ \E ok \in BOOLEAN :
         IF ok
         THEN /\ ctx' = "allocated"
              /\ priv' = "vmmci"
              /\ probe_pc' = "create_wq"
              /\ probe_rc' = probe_rc
         ELSE /\ ctx' = ctx
              /\ priv' = "NULL"
              /\ probe_pc' = "failed"
              /\ probe_rc' = -ENOMEM
    /\ UNCHANGED <<parVars, prev, devVars, clock_wq, monVars, remVars, uaf, sysclock, elapsed,
                   chgVars>>

\* ProbeCreateWq that logs the failure and goes on
ProbeCreateWq_noReturn ==
    /\ probe_pc = "create_wq"
    /\ \E ok \in BOOLEAN :
         clock_wq' = IF ok THEN "alive" ELSE "NULL"
    /\ probe_pc' = "queue"
    /\ probe_rc' = probe_rc
    /\ UNCHANGED <<parVars, prev, devVars, priv, ctx, monVars, remVars, uaf, sysclock, elapsed,
                   chgVars>>

\* vmmci->clock_wq = create_singlethread_workqueue(QNAME);
\* if (vmmci->clock_wq == NULL) return -ENOMEM;
ProbeCreateWq ==
    /\ probe_pc = "create_wq"
    /\ \E ok \in BOOLEAN :
         IF ok
         THEN /\ clock_wq' = "alive"
              /\ probe_pc' = "queue"
              /\ probe_rc' = probe_rc
         ELSE /\ clock_wq' = "NULL"
              /\ probe_pc' = "failed"
              /\ probe_rc' = -ENOMEM
    /\ UNCHANGED <<parVars, prev, devVars, priv, ctx, monVars, remVars, uaf, sysclock, elapsed,
                   chgVars>>

\* INIT_DELAYED_WORK; queue_delayed_work(..., DELAY_1s); return 0;
ProbeQueue ==
    /\ probe_pc = "queue"
    /\ timer' = queue_delayed_work(0, FALSE, DELAY_1s)
    /\ work_pending' = FALSE
    /\ probe_pc' = "done"
    /\ probe_rc' = 0
    /\ UNCHANGED <<parVars, prev, devVars, memVars, tick_pc, diff, tick_rearms, remVars, uaf,
                   sysclock, elapsed, chgVars>>

(***************************************************************************)
(* The delayed work: its timer, the worker, and clock_work_func.           *)
(***************************************************************************)
\* the timer of clock_work expires: the work goes on the work list of
\* clock_wq.  A queue that is being drained drops it.  After the queue was
\* destroyed (and the context that holds the timer freed) the expiry uses
\* released memory: the work may or may not run.
TimerFire ==
    /\ timer # 0
    /\ timer' = 0
    /\ \/ /\ clock_wq = "alive"
          /\ work_pending' = TRUE
          /\ uaf' = uaf
       \/ /\ clock_wq = "draining"
          /\ work_pending' = FALSE
          /\ uaf' = uaf
       \/ /\ clock_wq = "destroyed"
          /\ work_pending' \in BOOLEAN
          /\ uaf' = TRUE
    /\ UNCHANGED <<parVars, prev, devVars, probeVars, memVars, tick_pc, diff, tick_rearms,
                   remVars, sysclock, elapsed, chgVars>>

\* TickStart of a tick that re-arms itself first thing
TickStart_rearmFirst ==
    /\ work_pending
    /\ tick_pc = "idle"
    /\ work_pending' = FALSE
    /\ tick_pc' = "measure"
    /\ timer' = queue_delayed_work(timer, FALSE, DELAY_20s)
    /\ tick_rearms' = <<>>
    /\ UNCHANGED <<parVars, prev, devVars, probeVars, memVars, diff, remVars, uaf,
                   sysclock, elapsed, chgVars>>

\* the worker takes clock_work off the list and enters clock_work_func
TickStart ==
    /\ work_pending
    /\ tick_pc = "idle"
    /\ work_pending' = FALSE
    /\ tick_pc' = "measure"
    /\ tick_rearms' = <<>>
    /\ UNCHANGED <<parVars, prev, devVars, probeVars, memVars, timer, diff, remVars, uaf,
                   sysclock, elapsed, chgVars>>

\* TickMeasure of a tick that steps the clock to the host time when the
\* drift exceeds five seconds
TickMeasure_gated ==
    /\ tick_pc = "measure"
    /\ \E sec \in HostSecs, usec \in HostUsecs :
         LET host  == Timespec(sec, usec * NSEC_PER_USEC)
             guest == sysclock
             d     == timespec64_sub(host, guest)
         IN  /\ diff' = d
             /\ sysclock' = IF d.tv_sec > 5 \/ d.tv_sec < -5 THEN host ELSE sysclock
    /\ tick_pc' = "requeue"
    /\ uaf' = (uaf \/ ctx = "freed")
    /\ UNCHANGED <<parVars, prev, devVars, probeVars, memVars, timer, work_pending,
                   tick_rearms, remVars, elapsed, chgVars>>

\* lines 153-167: read the host time registers and the guest clock,
\* compute and log the drift
TickMeasure ==
    /\ tick_pc = "measure"
    /\ \E sec \in HostSecs, usec \in HostUsecs :
         LET host  == Timespec(sec, usec * NSEC_PER_USEC)
             guest == sysclock
         IN  diff' = timespec64_sub(host, guest)
    /\ tick_pc' = "requeue"
    /\ uaf' = (uaf \/ ctx = "freed")
    /\ UNCHANGED <<parVars, prev, devVars, probeVars, memVars, timer, work_pending,
                   tick_rearms, remVars, sysclock, elapsed, chgVars>>

\* TickRequeue of a tick that re-arms only while the clocks agree
TickRequeue_onlyInSync ==
    /\ tick_pc = "requeue"
    /\ timer' = IF diff.tv_sec = 0
                THEN queue_delayed_work(timer, work_pending, DELAY_20s)
                ELSE timer
    /\ tick_rearms' = IF timer' # timer THEN Append(tick_rearms, timer')
                                        ELSE tick_rearms
    /\ tick_pc' = "finish"
    /\ uaf' = (uaf \/ ctx = "freed" \/ clock_wq = "destroyed")
    /\ UNCHANGED <<parVars, prev, devVars, probeVars, memVars, work_pending, diff, remVars,
                   sysclock, elapsed, chgVars>>

\* queue_delayed_work(vmmci->clock_wq, &vmmci->clock_work, DELAY_20s);
TickRequeue ==
    /\ tick_pc = "requeue"
    /\ timer' = queue_delayed_work(timer, work_pending, DELAY_20s)
    /\ tick_rearms' = IF timer' # timer THEN Append(tick_rearms, timer')
                                        ELSE tick_rearms
    /\ tick_pc' = "finish"
    /\ uaf' = (uaf \/ ctx = "freed" \/ clock_wq = "destroyed")
    /\ UNCHANGED <<parVars, prev, devVars, probeVars, memVars, work_pending, diff, remVars,
                   sysclock, elapsed, chgVars>>

\* debug("clock synchronization routine finished"); return
TickFinish ==
    /\ tick_pc = "finish"
    /\ tick_pc' = "idle"
    /\ diff' = NoDiff
    /\ flush_need' = IF flush_need > 0 THEN flush_need - 1 ELSE 0
    /\ UNCHANGED <<parVars, prev, devVars, probeVars, memVars, timer, work_pending,
                   tick_rearms, remove_pc, uaf, sysclock, elapsed, chgVars>>

\* the guest wall clock advances
Elapse ==
    /\ elapsed < MaxElapse
    /\ elapsed' = elapsed + 1
    /\ sysclock' = Timespec(sysclock.tv_sec + 1, sysclock.tv_nsec)
    /\ UNCHANGED <<parVars, prev, devVars, probeVars, memVars, monVars, remVars, uaf, chgVars>>

(***************************************************************************)
(* vmmci_remove                                                            *)
(***************************************************************************)
\* the core calls remove for a bound device, with config-change delivery
\* disabled (no vmmci_changed is running or will run)
RemoveCall ==
    /\ probe_pc = "done"
    /\ remove_pc = "start"
    /\ chg_pc \in {"idle", "returned"}
    /\ remove_pc' = "cancel"
    /\ UNCHANGED <<parVars, prev, devVars, probeVars, memVars, monVars, flush_need, uaf,
                   sysclock, elapsed, chgVars>>

\* cancel_delayed_work(&vmmci->clock_work): kills an armed timer or takes
\* the work off the list; a running clock_work_func is left alone
RemoveCancel ==
    /\ remove_pc = "cancel"
    /\ timer' = 0
    /\ work_pending' = FALSE
    /\ remove_pc' = "flush"
    /\ UNCHANGED <<parVars, prev, devVars, probeVars, memVars, tick_pc, diff, tick_rearms,
                   flush_need, uaf, sysclock, elapsed, chgVars>>

\* flush_workqueue(vmmci->clock_wq) is called: it waits for the work that
\* is on the list or running at this moment
RemoveFlush ==
    /\ remove_pc = "flush"
    /\ flush_need' = (IF work_pending THEN 1 ELSE 0)
                     + (IF tick_pc # "idle" THEN 1 ELSE 0)
    /\ remove_pc' = "flushing"
    /\ UNCHANGED <<parVars, prev, devVars, probeVars, memVars, monVars, uaf, sysclock, elapsed,
                   chgVars>>

\* flush_workqueue returns
RemoveFlushed ==
    /\ remove_pc = "flushing"
    /\ flush_need = 0
    /\ remove_pc' = "destroy"
    /\ UNCHANGED <<parVars, prev, devVars, probeVars, memVars, monVars, flush_need, uaf,
                   sysclock, elapsed, chgVars>>

\* destroy_workqueue(vmmci->clock_wq) begins: the queue drains
RemoveDestroy ==
    /\ remove_pc = "destroy"
    /\ clock_wq' = "draining"
    /\ remove_pc' = "drain"
    /\ UNCHANGED <<parVars, prev, devVars, probeVars, priv, ctx, monVars, flush_need, uaf,
                   sysclock, elapsed, chgVars>>

\* destroy_workqueue returns once the queue is empty and idle
RemoveDrained ==
    /\ remove_pc = "drain"
    /\ ~work_pending
    /\ tick_pc = "idle"
    /\ clock_wq' = "destroyed"
    /\ remove_pc' = "reset"
    /\ UNCHANGED <<parVars, prev, devVars, probeVars, priv, ctx, monVars, flush_need, uaf,
                   sysclock, elapsed, chgVars>>

\* vdev->config->reset(vdev);
RemoveReset ==
    /\ remove_pc = "reset"
    /\ remove_pc' = "kfree"
    /\ UNCHANGED <<parVars, prev, devVars, probeVars, memVars, monVars, flush_need, uaf,
                   sysclock, elapsed, chgVars>>

\* kfree(vmmci);
RemoveKfree ==
    /\ remove_pc = "kfree"
    /\ ctx' = "freed"
    /\ remove_pc' = "done"
    /\ UNCHANGED <<parVars, prev, devVars, probeVars, priv, clock_wq, monVars, flush_need, uaf,
                   sysclock, elapsed, chgVars>>

(***************************************************************************)
(* vmmci_changed and sync_system_time                                      *)
(***************************************************************************)
Did(field) == [effects EXCEPT ![field] = @ + 1]
Logged(e, msg) == [e EXCEPT !.errs = Append(@, msg)]

\* SwitchAction that skips a command it has just handled
SwitchAction_dedup(c) ==
    CASE prev # <<>>        -> "none"
      [] c = VMMCI_NONE     -> "none"
      [] c = VMMCI_SHUTDOWN -> "poweroff"
      [] c = VMMCI_REBOOT   -> "reboot"
      [] c = VMMCI_SYNCRTC  -> "sync"
      [] OTHER              -> "invalid"

\* SwitchAction with the shutdown and reboot cases exchanged
SwitchAction_swapped(c) ==
    CASE c = VMMCI_NONE     -> "none"
      [] c = VMMCI_SHUTDOWN -> "reboot"
      [] c = VMMCI_REBOOT   -> "poweroff"
      [] c = VMMCI_SYNCRTC  -> "sync"
      [] OTHER              -> "invalid"

\* SwitchAction that takes every value from VMMCI_SYNCRTC up as a sync request
SwitchAction_range(c) ==
    CASE c = VMMCI_NONE     -> "none"
      [] c = VMMCI_SHUTDOWN -> "poweroff"
      [] c = VMMCI_REBOOT   -> "reboot"
      [] c >= VMMCI_SYNCRTC -> "sync"
      [] OTHER              -> "invalid"

\* the switch of vmmci_changed
SwitchAction(c) ==
    CASE c = VMMCI_NONE     -> "none"
      [] c = VMMCI_SHUTDOWN -> "poweroff"
      [] c = VMMCI_REBOOT   -> "reboot"
      [] c = VMMCI_SYNCRTC  -> "sync"
      [] OTHER              -> "invalid"

\* ShouldAck that tests the feature as virtio_has_feature does, taking
\* VMMCI_F_ACK for a bit position
ShouldAck_fbit(c, feats) == c # VMMCI_NONE /\ VMMCI_F_ACK \in feats

\* ShouldAck that gives up the acknowledgment after a failed RTC sync
ShouldAck_syncOk(c, feats) ==
    /\ c # VMMCI_NONE
    /\ HasMask(feats, VMMCI_F_ACK)
    /\ (effects.ret = <<>> \/ effects.ret[1] = 0)

\* if (cmd != VMMCI_NONE && (vdev->features & VMMCI_F_ACK))
ShouldAck(c, feats) == c # VMMCI_NONE /\ HasMask(feats, VMMCI_F_ACK)

\* the register the acknowledgment is written to, with a variant that
\* takes the wrong offset
AckRegister_wrong == "TIME_SEC"
AckRegister == "COMMAND"

\* AfterRead that leaves without closing the handle
AfterRead_toEnd(r) == IF r # 0 THEN "rtc_end" ELSE "rtc_set"

\* AfterRead without the check of rtc_read_time's result
AfterRead_unchecked(r) == "rtc_set"

\* if (rc) goto close; after rtc_read_time
AfterRead(r) == IF r # 0 THEN "rtc_close" ELSE "rtc_set"

\* the core delivers a config change to a bound driver, one at a time;
\* vdev->config->get(vdev, VMMCI_CONFIG_COMMAND, &cmd, sizeof(cmd));
ChangedRead ==
    /\ probe_pc = "done"
    /\ remove_pc = "start"
    /\ chg_pc \in {"idle", "returned"}
    /\ cmd' \in CmdValues
    /\ effects' = NoEffects
    /\ chg_pc' = "switch"
    /\ UNCHANGED <<parVars, prev, devVars, probeVars, memVars, monVars, remVars, uaf, sysclock,
                   elapsed, rc, rtc, hw_tm, time>>

\* ChangedRead that also records, when the value read is the one the
\* dispatch before read, what that dispatch did
Summary(e) ==
    [poweroff |-> e.poweroff, reboot |-> e.reboot, sync |-> e.sync,
     errs |-> SelectSeq(e.errs, LAMBDA m : m = "invalid command received"),
     written |-> e.written, wreg |-> e.wreg]

ChangedReadRec ==
    /\ probe_pc = "done"
    /\ remove_pc = "start"
    /\ chg_pc \in {"idle", "returned"}
    /\ \E v \in CmdValues :
         /\ cmd' = v
         /\ prev' = IF chg_pc = "returned" /\ v = cmd
                    THEN <<Summary(effects)>> ELSE <<>>
    /\ effects' = NoEffects
    /\ chg_pc' = "switch"
    /\ UNCHANGED <<parVars, devVars, probeVars, memVars, monVars, remVars, uaf,
                   sysclock, elapsed, rc, rtc, hw_tm, time>>

\* ChangedSwitch of a driver that stops the monitor when it is told to
\* shut down
ChangedSwitch_cancels ==
    /\ chg_pc = "switch"
    /\ LET a == SwitchAction(cmd) IN
         /\ effects' = CASE a = "poweroff" -> Did("poweroff")
                         [] a = "reboot"   -> Did("reboot")
                         [] a = "sync"     -> Did("sync")
                         [] a = "invalid"  -> Logged(effects, "invalid command received")
                         [] OTHER          -> effects
         /\ chg_pc' = IF a = "sync" THEN "rtc_open" ELSE "ack"
         /\ timer' = IF a = "poweroff" THEN 0 ELSE timer
         /\ work_pending' = IF a = "poweroff" THEN FALSE ELSE work_pending
    /\ UNCHANGED <<parVars, prev, devVars, probeVars, memVars, tick_pc, diff,
                   tick_rearms, remVars, uaf, sysclock, elapsed, cmd, rc, rtc,
                   hw_tm, time>>

\* switch (cmd) { ... }
ChangedSwitch ==
    /\ chg_pc = "switch"
    /\ LET a == SwitchAction(cmd) IN
         /\ effects' = CASE a = "poweroff" -> Did("poweroff")
                         [] a = "reboot"   -> Did("reboot")
                         [] a = "sync"     -> Did("sync")
                         [] a = "invalid"  -> Logged(effects, "invalid command received")
                         [] OTHER          -> effects
         /\ chg_pc' = IF a = "sync" THEN "rtc_open" ELSE "ack"
    /\ UNCHANGED <<parVars, prev, devVars, probeVars, memVars, monVars, remVars, uaf, sysclock,
                   elapsed, cmd, rc, rtc, hw_tm, time>>

\* rtc = rtc_class_open(...); if (rtc == NULL) { rc = -ENODEV; goto end; }
SyncOpen ==
    /\ chg_pc = "rtc_open"
    /\ \E ok \in BOOLEAN :
         IF ok
         THEN /\ rtc' = "open"
              /\ chg_pc' = "rtc_read"
              /\ effects' = [effects EXCEPT !.opened = Append(@, TRUE)]
              /\ rc' = rc
         ELSE /\ rtc' = "NULL"
              /\ rc' = -ENODEV
              /\ effects' = Logged([effects EXCEPT !.opened = Append(@, FALSE)],
                                   "unable to open rtc device")
              /\ chg_pc' = "rtc_end"
    /\ UNCHANGED <<parVars, prev, devVars, probeVars, memVars, monVars, remVars, uaf, sysclock,
                   elapsed, cmd, hw_tm, time>>

\* rc = rtc_read_time(rtc, &hw_tm); if (rc) goto close;
\* time.tv_sec = rtc_tm_to_time64(&hw_tm);
SyncRead ==
    /\ chg_pc = "rtc_read"
    /\ \E r \in {0, -EINVAL, -EIO}, tm \in RtcTimes :
         /\ rc' = r
         /\ chg_pc' = AfterRead(r)
         /\ IF r # 0
            THEN /\ effects' = Logged([effects EXCEPT !.read = Append(@, r)],
                                      "failed to read the hardware clock")
                 /\ UNCHANGED <<hw_tm, time>>
            ELSE /\ hw_tm' = tm
                 /\ time' = [time EXCEPT !.tv_sec = rtc_tm_to_time64(tm)]
                 /\ effects' = [effects EXCEPT !.read = Append(@, r)]
    /\ UNCHANGED <<parVars, prev, devVars, probeVars, memVars, monVars, remVars, uaf, sysclock,
                   elapsed, cmd, rtc>>

\* rc = do_settimeofday64(&time); if (rc) goto close; log(...)
SyncSet ==
    /\ chg_pc = "rtc_set"
    /\ \E r \in {0, -EINVAL} :
         /\ rc' = r
         /\ IF r = 0
            THEN /\ sysclock' = time
                 /\ effects' = [Did("settime") EXCEPT !.set = Append(@, r)]
            ELSE /\ sysclock' = sysclock
                 /\ effects' = Logged([Did("settime") EXCEPT !.set = Append(@, r)],
                                      "failed to set system clock to rtc")
    /\ chg_pc' = "rtc_close"
    /\ UNCHANGED <<parVars, prev, devVars, probeVars, memVars, monVars, remVars, uaf, elapsed,
                   cmd, rtc, hw_tm, time>>

\* close: rtc_class_close(rtc);
SyncClose ==
    /\ chg_pc = "rtc_close"
    /\ rtc' = "closed"
    /\ effects' = Did("close")
    /\ chg_pc' = "rtc_end"
    /\ UNCHANGED <<parVars, prev, devVars, probeVars, memVars, monVars, remVars, uaf, sysclock,
                   elapsed, cmd, rc, hw_tm, time>>

\* end: return rc;  (vmmci_changed drops the value and breaks)
SyncReturn ==
    /\ chg_pc = "rtc_end"
    /\ effects' = [effects EXCEPT !.ret = Append(@, rc)]
    /\ rc' = -1
    /\ rtc' = "NULL"
    /\ hw_tm' = NoTm
    /\ time' = InitTime
    /\ chg_pc' = "ack"
    /\ UNCHANGED <<parVars, prev, devVars, probeVars, memVars, monVars, remVars, uaf, sysclock,
                   elapsed, cmd>>

\* the acknowledgment, then return
ChangedAck ==
    /\ chg_pc = "ack"
    /\ effects' = IF ShouldAck(cmd, vdev_features)
                  THEN [effects EXCEPT !.written = Append(@, cmd),
                                       !.wreg = Append(@, AckRegister)]
                  ELSE effects
    /\ chg_pc' = "returned"
    /\ UNCHANGED <<parVars, prev, devVars, probeVars, memVars, monVars, remVars, uaf, sysclock,
                   elapsed, cmd, rc, rtc, hw_tm, time>>

(***************************************************************************)
(* The debug module parameter: set_debug and get_debug.  A string is a     *)
(* sequence of characters.                                                 *)
(***************************************************************************)
Alphabet == {"0", "1", "9", "-", "x", "\n"}
RECURSIVE StringsOfLen(_)
StringsOfLen(n) ==
    IF n = 0 THEN {<<>>}
    ELSE {Append(t, c) : t \in StringsOfLen(n - 1), c \in Alphabet}
\* the strings a write to the parameter may carry
DebugInputs == UNION {StringsOfLen(n) : n \in 1..MaxLen}

DigitChars == <<"0", "1", "2", "3", "4", "5", "6", "7", "8", "9">>
\* the value of a character as a digit, -1 if it is none
DigitVal(c) ==
    IF \E i \in DOMAIN DigitChars : DigitChars[i] = c
    THEN (CHOOSE i \in DOMAIN DigitChars : DigitChars[i] = c) - 1
    ELSE -1
CharAt(str, i) == IF i \in DOMAIN str THEN str[i] ELSE "NUL"
Drop(str, n) == SubSeq(str, n + 1, Len(str))

\* _parse_integer_fixup_radix: the base to use
FixupBase(str, base) ==
    IF base # 0 THEN base
    ELSE IF CharAt(str, 1) = "0"
         THEN (IF CharAt(str, 2) = "x" /\ DigitVal(CharAt(str, 3)) >= 0
               THEN 16 ELSE 8)
         ELSE 10
\* _parse_integer_fixup_radix: the string after a 0x prefix was skipped
FixupStr(str, base) ==
    IF FixupBase(str, base) = 16 /\ CharAt(str, 1) = "0" /\ CharAt(str, 2) = "x"
    THEN Drop(str, 2) ELSE str

\* _parse_integer: the digits consumed and their value
RECURSIVE ParseInteger(_, _, _, _)
ParseInteger(str, base, n, acc) ==
    LET v == DigitVal(CharAt(str, 1))
    IN  IF v < 0 \/ v >= base
        THEN [rv |-> n, res |-> acc]
        ELSE ParseInteger(Drop(str, 1), base, n + 1, acc * base + v)

\* _kstrtoull: digits, then an optional newline, then nothing
kstrtoull_(str, base0) ==
    LET base == FixupBase(str, base0)
        t    == FixupStr(str, base0)
        p    == ParseInteger(t, base, 0, 0)
        r1   == Drop(t, p.rv)
        r2   == IF CharAt(r1, 1) = "\n" THEN Drop(r1, 1) ELSE r1
    IN  IF p.rv = 0 \/ r2 # <<>>
        THEN [rc |-> -EINVAL, n |-> 0]
        ELSE [rc |-> 0, n |-> p.res]

\* kstrtoint (kstrtoll): an optional sign, then _kstrtoull; the strings of
\* the model are too short to overflow an int
kstrtoint(str, base) ==
    IF CharAt(str, 1) = "-"
    THEN LET r == kstrtoull_(Drop(str, 1), base)
         IN  [rc |-> r.rc, n |-> 0 - r.n]
    ELSE IF CharAt(str, 1) = "+"
         THEN kstrtoull_(Drop(str, 1), base)
         ELSE kstrtoull_(str, base)

\* param_set_int: kstrtoint with base 0 (the prefix chooses the base), stored
\* on success
param_set_int(val, level) ==
    LET r == kstrtoint(val, 0)
    IN  IF r.rc # 0 THEN [rc |-> r.rc, level |-> level]
                    ELSE [rc |-> 0, level |-> r.n]

\* set_debug: the result and the debug level afterwards
set_debug(val, level) ==
    LET r == kstrtoint(val, 10)
    IN  IF r.rc # 0 \/ r.n < 0
        THEN [rc |-> -EINVAL, level |-> level]
        ELSE param_set_int(val, level)

\* "%d" of a non-negative int
RECURSIVE FormatInt(_)
FormatInt(n) ==
    IF n < 10 THEN <<DigitChars[n + 1]>>
    ELSE Append(FormatInt(n \div 10), DigitChars[(n % 10) + 1])

\* get_debug: snprintf(buffer, 1024, "%d\n", debug)
get_debug(level) == Append(FormatInt(level), "\n")

\* a write to /sys/module/.../parameters/debug
SetDebug ==
    /\ dbg_io.writes < MaxWrites
    /\ \E val \in DebugInputs :
         LET r == set_debug(val, debug)
         IN  /\ debug' = r.level
             /\ dbg_io' = [op |-> "set", val |-> val, rc |-> r.rc,
                           before |-> debug, out |-> <<>>, bytes |-> 0,
                           writes |-> dbg_io.writes + 1]
    /\ UNCHANGED <<devVars, probeVars, memVars, monVars, remVars, uaf, sysclock,
                   elapsed, chgVars, prev>>

\* a read of the parameter
GetDebug ==
    /\ dbg_io.op # "get"
    /\ dbg_io' = [dbg_io EXCEPT !.op = "get",
                                !.out = get_debug(debug),
                                !.bytes = Len(get_debug(debug)) + 1]
    /\ UNCHANGED <<debug, devVars, probeVars, memVars, monVars, remVars, uaf,
                   sysclock, elapsed, chgVars, prev>>

Next ==
    \/ ProbeAlloc \/ ProbeCreateWq \/ ProbeQueue
    \/ TimerFire \/ TickStart \/ TickMeasure \/ TickRequeue \/ TickFinish
    \/ Elapse
    \/ RemoveCall \/ RemoveCancel \/ RemoveFlush \/ RemoveFlushed
    \/ RemoveDestroy \/ RemoveDrained \/ RemoveReset \/ RemoveKfree
    \/ ChangedRead \/ ChangedSwitch
    \/ SyncOpen \/ SyncRead \/ SyncSet \/ SyncClose \/ SyncReturn
    \/ ChangedAck

Spec == Init /\ [][Next]_vars

\* the monitor reads no feature bit: its progress is checked for a device
\* that advertises every bit
InitAllFeatures == Init /\ device_features = DeviceBits

\* the timer wheel fires armed timers, the worker runs queued work, and a
\* running function runs to its end
FairSpec ==
    /\ InitAllFeatures
    /\ [][Next]_vars
    /\ WF_vars(TimerFire)
    /\ WF_vars(TickStart)
    /\ WF_vars(TickMeasure)
    /\ WF_vars(TickRequeue)
    /\ WF_vars(TickFinish)

\* the driver with the history of the dispatch before kept, for devices
\* that advertise none or all of the feature bits
InitHist == Init /\ device_features \in {{}, DeviceBits}
NextHist ==
    \/ ProbeAlloc \/ ProbeCreateWq \/ ProbeQueue
    \/ TimerFire \/ TickStart \/ TickMeasure \/ TickRequeue \/ TickFinish
    \/ Elapse
    \/ RemoveCall \/ RemoveCancel \/ RemoveFlush \/ RemoveFlushed
    \/ RemoveDestroy \/ RemoveDrained \/ RemoveReset \/ RemoveKfree
    \/ ChangedReadRec \/ ChangedSwitch
    \/ SyncOpen \/ SyncRead \/ SyncSet \/ SyncClose \/ SyncReturn
    \/ ChangedAck
HistSpec == InitHist /\ [][NextHist]_vars

\* the parameter is set and read through sysfs, whatever the device does;
\* its handlers are run on their own, for a device that is not yet probed
NextDebug == SetDebug \/ GetDebug
DebugSpec == InitAllFeatures /\ [][NextDebug]_vars

TypeOK ==
    /\ tick_pc \in {"idle", "measure", "requeue", "finish"}
    /\ timer \in {0, DELAY_1s, DELAY_20s}
    /\ flush_need \in 0..2

(***************************************************************************)
(* Properties.                                                             *)
(***************************************************************************)
\* bit position of the Ack capability in the feature word
AckBit == 1

Abs(x) == IF x < 0 THEN -x ELSE x
Dispatched == chg_pc = "returned"
KnownCmds == {VMMCI_NONE, VMMCI_SHUTDOWN, VMMCI_REBOOT, VMMCI_SYNCRTC}
DetachRequested == remove_pc \notin {"start", "cancel"}
ReleaseBegun == remove_pc \in {"drain", "reset", "kfree", "done"}

\* C1: a dispatch writes the COMMAND register iff Ack (bit 1) is in the
\* negotiated set and the command read is not None, it writes once, and
\* the value written is the command value read by that dispatch
C1_AckWrite ==
    /\ Dispatched =>
         effects.written = IF AckBit \in vdev_features /\ cmd # VMMCI_NONE
                           THEN <<cmd>> ELSE <<>>
    /\ ~Dispatched => effects.written = <<>>

C1_Witness ==
    /\ Dispatched
    /\ cmd = VMMCI_REBOOT
    /\ effects.written = <<VMMCI_REBOOT>>

\* C2 (as claimed): once vmmci_remove has called cancel_delayed_work, no
\* step arms the timer of clock_work again
C2_NoRearmAfterCancel ==
    [][DetachRequested => ~(timer = 0 /\ timer' # 0)]_vars

\* C3 (as claimed): detach cancels, flushes, releases the queue and then
\* the context, in that order, and once the release of the queue has begun
\* no tick is executing, queued or timer-armed
C3_DetachOrder ==
    /\ clock_wq \in {"draining", "destroyed"} => ReleaseBegun
    /\ ctx = "freed" => (clock_wq = "destroyed" /\ remove_pc = "done")
    /\ ReleaseBegun => (tick_pc = "idle" /\ ~work_pending /\ timer = 0)

\* C4 (as claimed): the Monitor task is never pending (timer-armed or
\* queued) while a tick is executing
C4_NeverPendingWhileExecuting ==
    tick_pc # "idle" => (timer = 0 /\ ~work_pending)

\* C4 (amended): at most one instance of the Monitor task is pending, and a
\* pending instance coexists with an executing tick only after that tick's
\* own re-arm (line 169), while it finishes
C4_OnePendingRearmLast ==
    /\ ~(timer # 0 /\ work_pending)
    /\ tick_pc \in {"measure", "requeue"} => (timer = 0 /\ ~work_pending)

C4_Witness ==
    /\ tick_pc = "finish"
    /\ work_pending
    /\ remove_pc = "start"

\* C5 (as claimed): the measuring step of a tick changes the system clock
\* iff the seconds part of host - guest exceeds 5 in absolute value
C5_CorrectIffDrift ==
    [][(tick_pc = "measure" /\ tick_pc' = "requeue")
         => ((sysclock' # sysclock) <=> (Abs(diff'.tv_sec) > 5))]_vars

\* C5 (amended): no step of a tick changes the system clock, whatever the
\* drift it measured; the tick only computes and logs host - guest
C5_TickNeverSetsClock ==
    [][(tick_pc' # tick_pc) => (sysclock' = sysclock)]_vars

C5_Witness ==
    /\ tick_pc = "finish"
    /\ diff.tv_sec > 5
    /\ sysclock \in BootClocks

\* C6: while detach has not been requested, a tick that has passed its
\* re-arm has armed the timer exactly once, with DELAY_20s, whatever the
\* drift; and after a successful attach a tick runs again and again until
\* detach is requested
C6_RearmsEveryTick ==
    /\ [](tick_pc = "finish" /\ remove_pc = "start"
            => /\ tick_rearms = <<DELAY_20s>>
               /\ (timer = DELAY_20s \/ work_pending))
    /\ ((probe_pc = "done" /\ tick_pc = "idle")
            ~> (tick_pc # "idle" \/ remove_pc # "start"))

C6_Witness ==
    /\ tick_pc = "finish"
    /\ remove_pc = "start"
    /\ diff.tv_sec < -5
    /\ tick_rearms = <<DELAY_20s>>

\* C7: Shutdown issues one power-off request and nothing else, Reboot one
\* reboot request and nothing else, SyncRTC one call of sync_system_time
\* and no lifecycle request, None nothing at all
C7_ExactlyTheAction ==
    /\ effects.poweroff <= 1 /\ effects.reboot <= 1 /\ effects.sync <= 1
    /\ Dispatched =>
         /\ cmd = VMMCI_SHUTDOWN =>
              /\ effects.poweroff = 1 /\ effects.reboot = 0
              /\ effects.sync = 0 /\ effects.settime = 0
         /\ cmd = VMMCI_REBOOT =>
              /\ effects.reboot = 1 /\ effects.poweroff = 0
              /\ effects.sync = 0 /\ effects.settime = 0
         /\ cmd = VMMCI_SYNCRTC =>
              /\ effects.sync = 1 /\ Len(effects.ret) = 1
              /\ effects.poweroff = 0 /\ effects.reboot = 0
         /\ cmd = VMMCI_NONE => effects = NoEffects

C7_Witness ==
    /\ Dispatched
    /\ cmd = VMMCI_SHUTDOWN
    /\ effects.poweroff = 1

\* C8: a command value outside 0..3 is logged as an error, causes no
\* power-off, reboot or clock change, and the dispatch returns so that the
\* next config change is handled
C8_UnknownCommand ==
    cmd \notin KnownCmds =>
        /\ chg_pc \in {"switch", "ack", "returned"}
        /\ effects.poweroff = 0 /\ effects.reboot = 0
        /\ effects.sync = 0 /\ effects.settime = 0
        /\ chg_pc # "switch" => effects.errs = <<"invalid command received">>
        /\ (Dispatched /\ remove_pc = "start") => ENABLED ChangedRead

C8_Witness ==
    /\ Dispatched
    /\ cmd = -1
    /\ effects.errs = <<"invalid command received">>

\* C9: a SyncRTC dispatch with Ack negotiated writes 3 to the COMMAND
\* register whether sync_system_time succeeded or failed
C9_AckAfterSync ==
    (Dispatched /\ cmd = VMMCI_SYNCRTC /\ AckBit \in vdev_features)
        => effects.written = <<VMMCI_SYNCRTC>>

C9_Witness ==
    /\ Dispatched
    /\ cmd = VMMCI_SYNCRTC
    /\ effects.ret = <<-ENODEV>>
    /\ effects.written = <<VMMCI_SYNCRTC>>

\* C10: when the clock source fails to open, sync_system_time returns
\* -ENODEV, and when the read fails it returns the read's error; in both
\* cases do_settimeofday64 is not attempted
C10_OpenOrReadFailure ==
    /\ effects.opened = <<FALSE>> =>
         /\ effects.settime = 0 /\ effects.read = <<>>
         /\ effects.ret \in {<<>>, <<-ENODEV>>}
         /\ chg_pc \in {"rtc_end", "ack", "returned"}
    /\ (effects.read # <<>> /\ effects.read[1] # 0) =>
         /\ effects.settime = 0
         /\ effects.ret \in {<<>>, effects.read}
         /\ chg_pc \in {"rtc_close", "rtc_end", "ack", "returned"}

C10_Witness ==
    /\ effects.read = <<-EIO>>
    /\ effects.ret = <<-EIO>>
    /\ effects.settime = 0

\* seconds since 1970-01-01 00:00:00 of a calendar value, by counting days
IsLeap(y) == (y % 4 = 0 /\ y % 100 # 0) \/ y % 400 = 0
DaysInMonth(y, m) ==
    IF m = 2 THEN (IF IsLeap(y) THEN 29 ELSE 28)
    ELSE IF m \in {4, 6, 9, 11} THEN 30 ELSE 31
RECURSIVE DaysBeforeYear(_)
DaysBeforeYear(y) ==
    IF y <= 1970 THEN 0
    ELSE DaysBeforeYear(y - 1) + (IF IsLeap(y - 1) THEN 366 ELSE 365)
RECURSIVE DaysBeforeMonth(_, _)
DaysBeforeMonth(y, m) ==
    IF m <= 1 THEN 0 ELSE DaysBeforeMonth(y, m - 1) + DaysInMonth(y, m - 1)
CalendarSeconds(tm) ==
    LET y == tm.tm_year + 1900
        d == DaysBeforeYear(y) + DaysBeforeMonth(y, tm.tm_mon + 1) + tm.tm_mday - 1
    IN  ((d * 24 + tm.tm_hour) * 60 + tm.tm_min) * 60 + tm.tm_sec

SetStep == chg_pc = "rtc_set" /\ chg_pc' = "rtc_close"

\* C11 (as claimed): a successful clock-set step sets the system clock to
\* the seconds of the calendar value read with no sub-second part
C11_SetToCalendarExact ==
    [][(SetStep /\ rc' = 0)
         => sysclock' = Timespec(CalendarSeconds(hw_tm), 0)]_vars

\* C11 (amended): a successful clock-set step sets the system clock to the
\* seconds of the calendar value read plus half a second, and the routine
\* then returns 0
C11_SetToCalendarPlusHalf ==
    /\ [][(SetStep /\ rc' = 0)
            => sysclock' = Timespec(CalendarSeconds(hw_tm), NSEC_PER_SEC \div 2)]_vars
    /\ []((effects.set = <<0>> /\ effects.ret # <<>>) => effects.ret = <<0>>)

C11_Witness ==
    /\ chg_pc = "rtc_close"
    /\ effects.set = <<0>>
    /\ hw_tm = RtcTm(120, 1, 29, 23, 59, 59)
    /\ sysclock = Timespec(CalendarSeconds(hw_tm), NSEC_PER_SEC \div 2)

\* C12: once sync_system_time has returned, the handle was closed exactly
\* once if it had been opened (whether the read failed, the clock-set
\* failed or all succeeded) and not at all if the open failed; it is never
\* closed twice
C12_CloseExactlyOnce ==
    /\ effects.close <= 1
    /\ effects.ret # <<>> =>
         /\ effects.opened = <<TRUE>> => effects.close = 1
         /\ effects.opened = <<FALSE>> => effects.close = 0

C12_Witness ==
    /\ effects.ret = <<-EIO>>
    /\ effects.opened = <<TRUE>>
    /\ effects.close = 1

\* bit positions of the TimeSync and SyncRTC capabilities
TimeSyncBit == 0
SyncRtcBit == 2

\* C13 (as claimed): the negotiated set is the advertised bits among the
\* positions 0, 1 and 2, and the bit the dispatcher tests for Ack is the
\* position the feature table offers for Ack
C13_NegotiatedIsIntersection ==
    /\ vdev_features = device_features \cap {TimeSyncBit, AckBit, SyncRtcBit}
    /\ MaskBits(VMMCI_F_ACK) = {feature_table[2]}

\* C15: when the allocation of the context or of the work queue has
\* failed, probe has returned -ENOMEM, the delayed work is not armed or
\* queued and no tick runs or has run
C15_AllocFailure ==
    LET ctxFailed == probe_pc # "alloc" /\ ctx = "none"
        wqFailed  == /\ probe_pc \notin {"alloc", "create_wq"}
                     /\ ctx # "none"
                     /\ clock_wq = "NULL"
    IN  (ctxFailed \/ wqFailed) =>
            /\ probe_pc = "failed"
            /\ probe_rc = -ENOMEM
            /\ timer = 0 /\ ~work_pending
            /\ tick_pc = "idle" /\ tick_rearms = <<>>

C15_Witness ==
    /\ probe_pc = "failed"
    /\ ctx = "allocated"
    /\ clock_wq = "NULL"
    /\ probe_rc = -ENOMEM

\* C17 (as claimed): a tick has read the host time registers only if
\* TimeSync is negotiated, and a dispatch has called sync_system_time only
\* if SyncRTC is negotiated
C17_GatedByCapability ==
    /\ tick_pc \in {"requeue", "finish"} => TimeSyncBit \in vdev_features
    /\ effects.sync > 0 => SyncRtcBit \in vdev_features

\* C20 (as claimed): after a failed probe no context is allocated and
\* vdev->priv does not refer to one
C20_FailedProbeReleasesContext ==
    probe_pc = "failed" => (ctx # "allocated" /\ priv = "NULL")

\* a base-10 integer: an optional sign, digits, an optional final newline
StripNl(str) ==
    IF str # <<>> /\ str[Len(str)] = "\n" THEN SubSeq(str, 1, Len(str) - 1) ELSE str
StripSign(str) ==
    IF str # <<>> /\ str[1] \in {"-", "+"} THEN Tail(str) ELSE str
DecDigits(str) == StripSign(StripNl(str))
IsDecimal(str) ==
    /\ DecDigits(str) # <<>>
    /\ \A i \in DOMAIN DecDigits(str) : DecDigits(str)[i] \in
         {"0", "1", "2", "3", "4", "5", "6", "7", "8", "9"}
RECURSIVE DecMagnitude(_)
DecMagnitude(ds) ==
    IF ds = <<>> THEN 0
    ELSE 10 * DecMagnitude(SubSeq(ds, 1, Len(ds) - 1)) + DigitVal(ds[Len(ds)])
DecVal(str) ==
    IF str[1] = "-" THEN 0 - DecMagnitude(DecDigits(str))
                    ELSE DecMagnitude(DecDigits(str))

\* C14 (as claimed): a write of a negative value or of something that is no
\* base-10 integer fails and leaves the level as it was; a write of a
\* non-negative integer n succeeds and a read after it reports n
C14_SetDebug ==
    dbg_io.op # "none" =>
        LET v == dbg_io.val
        IN  IF IsDecimal(v) /\ DecVal(v) >= 0
            THEN /\ dbg_io.rc = 0
                 /\ debug = DecVal(v)
                 /\ dbg_io.op = "get" => dbg_io.out = Append(FormatInt(DecVal(v)), "\n")
            ELSE /\ dbg_io.rc # 0
                 /\ debug = dbg_io.before

\* C16: a dispatch that read the same COMMAND value as the dispatch before
\* it has done the same action and taken the same acknowledgment decision
C16_SameReadSameDispatch ==
    (Dispatched /\ prev # <<>>) => Summary(effects) = prev[1]

C16_Witness ==
    /\ Dispatched
    /\ prev # <<>>
    /\ cmd = VMMCI_SHUTDOWN
    /\ effects.poweroff = 1
    /\ effects.written = <<VMMCI_SHUTDOWN>>

\* C18: no step changes the negotiated feature set, no step of a tick
\* writes a config register, and the only register write is the
\* dispatcher's acknowledgment, to COMMAND, of the value it read
C18_OnlyAckWrite ==
    [][/\ vdev_features' = vdev_features
       /\ (tick_pc' # tick_pc) => effects'.wreg = effects.wreg
       /\ (effects'.wreg # effects.wreg /\ effects'.wreg # <<>>) =>
            /\ chg_pc = "ack"
            /\ effects'.wreg = Append(effects.wreg, "COMMAND")
            /\ effects'.written = Append(effects.written, cmd)]_vars

C18_Witness ==
    /\ tick_pc = "finish"
    /\ effects.wreg = <<"COMMAND">>

\* C19: no step of a dispatch changes the monitor's scheduling state (its
\* timer, its place on the work list, the running tick, the work queue),
\* and after any dispatch a tick still runs unless detach is requested
C19_DispatchLeavesMonitor ==
    /\ [][(chg_pc' # chg_pc) =>
            UNCHANGED <<timer, work_pending, tick_pc, tick_rearms, clock_wq,
                        flush_need, remove_pc>>]_vars
    /\ ((Dispatched /\ tick_pc = "idle")
            ~> (tick_pc # "idle" \/ remove_pc # "start"))

C19_Witness ==
    /\ Dispatched
    /\ effects.ret # <<>>
    /\ tick_pc = "requeue"
    /\ remove_pc = "start"

====
